---- MODULE Spec2Model ----
(***************************************************************************)
(* Seagreen: the sampling/aggregation engine (tracker.py, SeagreenTracker)  *)
(* and its driver (seagreen.py, track_process).                             *)
(*                                                                          *)
(* Three specifications share the state:                                    *)
(*   Spec       one SeagreenTracker driven by an arbitrary caller           *)
(*   SpecTrack  one invocation of track_process(pid, duration)              *)
(*   SpecScore  the efficiency formula and the rating ladder of             *)
(*              generate_report applied to drawn (avg_cpu, duration) pairs  *)
(*                                                                          *)
(* Python floats are IEEE-754 binary64: every arithmetic result is rounded  *)
(* to the nearest value with a 53-bit significand, ties to even.  The model *)
(* keeps that rounding rule on exact rationals and scales the significand   *)
(* down to MantissaBits bits.                                               *)
(***************************************************************************)
EXTENDS Integers, Sequences, FiniteSets, TLC

\* ------------------------------------------------------------------ bounds
\* Bits of significand of the modelled floats (53 in the program).
MantissaBits == 5
\* Seconds of wall-clock time per clock tick.
TickSeconds == 30
\* The clock runs from tick 0 to tick MaxTicks.
MaxTicks == 2
\* Cap on the length of the snapshot list.
MaxSnapshots == 3

\* ------------------------------------------------------- float arithmetic
Abs(n) == IF n < 0 THEN -n ELSE n

RECURSIVE Pow2(_)
Pow2(k) == IF k <= 0 THEN 1 ELSE 2 * Pow2(k - 1)

RECURSIVE GCD(_, _)
GCD(a, b) == IF b = 0 THEN a ELSE GCD(b, a % b)

\* The rational n/d (d > 0) in lowest terms.
Rat(n, d) == LET g == GCD(Abs(n), d) IN [num |-> n \div g, den |-> d \div g]

\* The exponent e with 2^(MantissaBits-1) <= a/(d * 2^e) < 2^MantissaBits, a > 0.
RECURSIVE Expo(_, _)
Expo(a, d) ==
    IF a \div Pow2(MantissaBits) >= d THEN Expo(a, 2 * d) + 1
    ELSE IF a \div Pow2(MantissaBits - 1) < d THEN Expo(2 * a, d) - 1
    ELSE 0

\* n/d (d > 0) rounded to the nearest float, ties to the even significand.
FRound(n, d) ==
    IF n = 0 THEN Rat(0, 1)
    ELSE LET x  == Rat(Abs(n), d)
             e  == Expo(x.num, x.den)
             aa == IF e < 0 THEN x.num * Pow2(-e) ELSE x.num
             dd == IF e > 0 THEN x.den * Pow2(e) ELSE x.den
             q  == aa \div dd
             r  == aa % dd
             m  == IF 2 * r > dd \/ (2 * r = dd /\ q % 2 = 1) THEN q + 1 ELSE q
             s  == IF n < 0 THEN -1 ELSE 1
         IN  IF e >= 0 THEN Rat(s * m * Pow2(e), 1) ELSE Rat(s * m, Pow2(-e))

\* An int used as a float operand.
F(k) == FRound(k, 1)

FAdd(x, y) == FRound(x.num * y.den + y.num * x.den, x.den * y.den)
FSub(x, y) == FRound(x.num * y.den - y.num * x.den, x.den * y.den)
FMul(x, y) == FRound(x.num * y.num, x.den * y.den)
\* y # 0
FDiv(x, y) ==
    IF y.num > 0 THEN FRound(x.num * y.den, x.den * y.num)
    ELSE FRound(-(x.num * y.den), x.den * (-y.num))

FLeq(x, y) == x.num * y.den <= y.num * x.den
FLt(x, y) == x.num * y.den < y.num * x.den
FGeq(x, y) == FLeq(y, x)
FGt(x, y) == FLt(y, x)

\* Python's max(a, b) and min(a, b): the first argument unless the second is
\* strictly larger (smaller).
PyMax(a, b) == IF FGt(b, a) THEN b ELSE a
PyMin(a, b) == IF FLt(b, a) THEN b ELSE a

\* sum(values): left to right from 0, each addition rounded.
RECURSIVE PySum(_)
PySum(values) ==
    IF values = <<>> THEN F(0)
    ELSE FAdd(PySum(SubSeq(values, 1, Len(values) - 1)), values[Len(values)])

\* max(values) of a non-empty list.
RECURSIVE PyMaxOf(_)
PyMaxOf(values) ==
    IF Len(values) = 1 THEN values[1]
    ELSE PyMax(PyMaxOf(SubSeq(values, 1, Len(values) - 1)), values[Len(values)])

\* ------------------------------------------------------------- the data
None == <<>>
Some(v) == <<v>>

\* The outcome of a call: the value it returned, or the exception it raised.
Returned(op, v) == [op |-> op, exc |-> "", val |-> v]
Raised(op, e) == [op |-> op, exc |-> e, val |-> None]
NoCall == [op |-> "", exc |-> "", val |-> None]

\* What one take_snapshot reads from a live process: cpu is
\* Process.cpu_percent(interval=0.1), a percentage rounded to one decimal and
\* above 100 for a process busy on several cores; rss is
\* Process.memory_info().rss, in bytes.  An idle reading and a busy one.
Readings ==
    {[cpu |-> FRound(1, 10), rss |-> 64 * 1024 * 1024],
     [cpu |-> F(120), rss |-> 96 * 1024 * 1024]}
\* Physical memory of the machine, in bytes (Process.memory_percent divides by it).
TotalMemory == 256 * 1024 * 1024
\* Process.name()
ProcessName == "python3"

VARIABLES
    clock,        \* wall-clock time, in ticks
    proc,         \* the target process: "alive", "gone", "missing", "denied"
    start_time,   \* SeagreenTracker.start_time: None or Some(float)
    snapshots,    \* SeagreenTracker.snapshots
    ret,          \* outcome of the last call of a tracker method
    pc,           \* track_process: the statement about to run
    duration,     \* track_process: its duration argument, in ticks
    loop_start,   \* track_process: its local start_time
    outcome,      \* track_process: how the invocation ended
    calls,        \* track_process: calls made of each tracker method
    interrupt,    \* track_process: what became of a KeyboardInterrupt
    probe         \* SpecScore: the drawn inputs and the computed outputs

vars == <<clock, proc, start_time, snapshots, ret, pc, duration, loop_start,
          outcome, calls, interrupt, probe>>
driverVars == <<pc, duration, loop_start, outcome, calls, interrupt>>

\* time.time()
Now == F(clock * TickSeconds)

\* ResourceSnapshot(...) as built by take_snapshot from one reading.
ResourceSnapshot(cpu, rss) ==
    [timestamp      |-> Now,
     cpu_percent    |-> cpu,
     memory_mb      |-> FDiv(FDiv(F(rss), F(1024)), F(1024)),
     memory_percent |-> FMul(FDiv(F(rss), F(TotalMemory)), F(100))]

\* A variant of AppendSnapshot: the new snapshot is inserted at the front.
AppendSnapshot_Front(snaps, s) == <<s>> \o snaps

\* self.snapshots.append(snapshot)
AppendSnapshot(snaps, s) == Append(snaps, s)

\* self.start_time = time.time()
RecordStart(old, now) == Some(now)

\* ------------------------------------------------------ generate_report
\* if not self.snapshots or self.start_time is None
NoData(snaps, st) == snaps = <<>> \/ st = None

\* A variant of NoDataResult: a zero-filled report instead of the ValueError.
NoDataResult_ZeroReport ==
    Returned("generate_report",
             Some([process_name |-> ProcessName, duration_seconds |-> F(0),
                   avg_cpu |-> F(0), peak_cpu |-> F(0), avg_memory_mb |-> F(0),
                   peak_memory_mb |-> F(0), cpu_seconds |-> F(0),
                   efficiency_score |-> F(0),
                   seagreen_rating |-> "Needs Improvement"]))

\* raise ValueError("No monitoring data collected!")
NoDataResult == Raised("generate_report", "ValueError")

\* sum(values) / len(values)
Mean(values) == FDiv(PySum(values), F(Len(values)))

\* (avg_cpu / 100) * duration
CpuSeconds(avg_cpu, dur) == FMul(FDiv(avg_cpu, F(100)), dur)

\* A variant of Efficiency: the max(0, ...) floor is missing.
Efficiency_NoFloor(avg_cpu, dur) ==
    IF FGt(dur, F(0))
    THEN PyMin(F(100), FSub(F(100), FMul(avg_cpu, FDiv(dur, F(60)))))
    ELSE F(0)

\* A variant of Efficiency: avg_cpu is divided by the minutes elapsed.
Efficiency_PerMinute(avg_cpu, dur) ==
    IF FGt(dur, F(0))
    THEN PyMax(F(0), PyMin(F(100), FSub(F(100), FDiv(avg_cpu, FDiv(dur, F(60))))))
    ELSE F(0)

\* max(0, min(100, 100 - (avg_cpu * (duration / 60)))) if duration > 0 else 0
Efficiency(avg_cpu, dur) ==
    IF FGt(dur, F(0))
    THEN PyMax(F(0), PyMin(F(100), FSub(F(100), FMul(avg_cpu, FDiv(dur, F(60))))))
    ELSE F(0)

\* A variant of Rating: the lower edge of each band is exclusive.
Rating_Strict(efficiency) ==
    IF FGt(efficiency, F(80)) THEN "Excellent!"
    ELSE IF FGt(efficiency, F(60)) THEN "Good"
    ELSE IF FGt(efficiency, F(40)) THEN "Fair"
    ELSE "Needs Improvement"

\* The leaf rating ladder (the labels without their leaf glyphs).
Rating(efficiency) ==
    IF FGeq(efficiency, F(80)) THEN "Excellent!"
    ELSE IF FGeq(efficiency, F(60)) THEN "Good"
    ELSE IF FGeq(efficiency, F(40)) THEN "Fair"
    ELSE "Needs Improvement"

\* The SeagreenReport computed from a non-empty list and a recorded start.
SeagreenReport(snaps, st, now) ==
    LET dur        == FSub(now, st[1])
        cpu_values == [i \in 1..Len(snaps) |-> snaps[i].cpu_percent]
        mem_values == [i \in 1..Len(snaps) |-> snaps[i].memory_mb]
        avg_cpu    == Mean(cpu_values)
        efficiency == Efficiency(avg_cpu, dur)
    IN  [process_name     |-> ProcessName,
         duration_seconds |-> dur,
         avg_cpu          |-> avg_cpu,
         peak_cpu         |-> PyMaxOf(cpu_values),
         avg_memory_mb    |-> Mean(mem_values),
         peak_memory_mb   |-> PyMaxOf(mem_values),
         cpu_seconds      |-> CpuSeconds(avg_cpu, dur),
         efficiency_score |-> efficiency,
         seagreen_rating  |-> Rating(efficiency)]

\* What generate_report() does: it changes no field of the tracker.
\* self.process.name() raises NoSuchProcess once the process is gone.
GenerateReportResult ==
    IF NoData(snapshots, start_time) THEN NoDataResult
    ELSE IF proc # "alive" THEN Raised("generate_report", "NoSuchProcess")
    ELSE Returned("generate_report", Some(SeagreenReport(snapshots, start_time, Now)))

\* --------------------------------------------------- the tracker's methods
\* start_monitoring()
StartMonitoringCall ==
    /\ start_time' = RecordStart(start_time, Now)
    /\ ret' = Returned("start_monitoring", None)
    /\ UNCHANGED snapshots

\* take_snapshot(): the readings raise NoSuchProcess once the process is gone.
TakeSnapshotCall ==
    IF proc = "alive"
    THEN /\ Len(snapshots) < MaxSnapshots
         /\ \E rd \in Readings :
               LET s == ResourceSnapshot(rd.cpu, rd.rss)
               IN  /\ snapshots' = AppendSnapshot(snapshots, s)
                   /\ ret' = Returned("take_snapshot", Some(s))
         /\ UNCHANGED start_time
    ELSE /\ ret' = Raised("take_snapshot", "NoSuchProcess")
         /\ UNCHANGED <<start_time, snapshots>>

\* take_snapshot() interrupted while cpu_percent(interval=0.1) blocks.
TakeSnapshotInterrupted ==
    /\ ret' = Raised("take_snapshot", "KeyboardInterrupt")
    /\ UNCHANGED <<start_time, snapshots>>

\* generate_report()
GenerateReportCall ==
    /\ ret' = GenerateReportResult
    /\ UNCHANGED <<start_time, snapshots>>

\* ------------------------------------------------ the world around the code
\* Wall-clock time passes.
Tick ==
    /\ clock < MaxTicks
    /\ clock' = clock + 1
    /\ UNCHANGED <<proc, start_time, snapshots, ret, driverVars, probe>>

\* The target process exits.
ProcessExit ==
    /\ proc = "alive"
    /\ proc' = "gone"
    /\ UNCHANGED <<clock, start_time, snapshots, ret, driverVars, probe>>

NoProbe == [scored |-> FALSE]
NoCalls == [init |-> 0, start_monitoring |-> 0, take_snapshot |-> 0, generate_report |-> 0]

\* ------------------------------------- Spec: a tracker and any caller
\* SeagreenTracker(pid) has returned: the process existed and was accessible.
Init ==
    /\ clock = 0
    /\ proc = "alive"
    /\ start_time = None
    /\ snapshots = <<>>
    /\ ret = NoCall
    /\ pc = "caller"
    /\ duration = 0
    /\ loop_start = None
    /\ outcome = "running"
    /\ calls = NoCalls
    /\ interrupt = "none"
    /\ probe = NoProbe

start_monitoring ==
    /\ StartMonitoringCall
    /\ UNCHANGED <<clock, proc, driverVars, probe>>

take_snapshot ==
    /\ TakeSnapshotCall
    /\ UNCHANGED <<clock, proc, driverVars, probe>>

take_snapshot_interrupted ==
    /\ TakeSnapshotInterrupted
    /\ UNCHANGED <<clock, proc, driverVars, probe>>

generate_report ==
    /\ GenerateReportCall
    /\ UNCHANGED <<clock, proc, driverVars, probe>>

Next ==
    \/ Tick
    \/ ProcessExit
    \/ start_monitoring
    \/ take_snapshot
    \/ take_snapshot_interrupted
    \/ generate_report

Spec == Init /\ [][Next]_vars

\* ------------------------------- SpecTrack: track_process(pid, duration)
\* The duration argument, in ticks (the code accepts any float).
Durations == 0..MaxTicks

InitTrack ==
    /\ clock = 0
    /\ proc \in {"alive", "missing", "denied"}
    /\ start_time = None
    /\ snapshots = <<>>
    /\ ret = NoCall
    /\ pc = "bind"
    /\ duration \in Durations
    /\ loop_start = None
    /\ outcome = "running"
    /\ calls = NoCalls
    /\ interrupt = "none"
    /\ probe = NoProbe

Called(method) == calls' = [calls EXCEPT ![method] = @ + 1]

\* A variant of AfterBindFailure: the except clause falls through.
AfterBindFailure_FallThrough == "start"

\* Where track_process goes when SeagreenTracker(pid) raised: it returns.
AfterBindFailure == "done"

\* tracker = SeagreenTracker(pid), and the two except clauses.
track_bind ==
    /\ pc = "bind"
    /\ Called("init")
    /\ IF proc = "alive"
       THEN /\ ret' = Returned("__init__", None)
            /\ pc' = "start"
            /\ UNCHANGED outcome
       ELSE /\ ret' = Raised("__init__", IF proc = "denied" THEN "AccessDenied"
                                         ELSE "NoSuchProcess")
            /\ pc' = AfterBindFailure
            /\ outcome' = IF proc = "denied" THEN "denied" ELSE "not_found"
    /\ start_time' = None
    /\ snapshots' = <<>>
    /\ UNCHANGED <<clock, proc, duration, loop_start, interrupt, probe>>

\* tracker.start_monitoring()
track_start ==
    /\ pc = "start"
    /\ StartMonitoringCall
    /\ Called("start_monitoring")
    /\ pc' = "clock"
    /\ UNCHANGED <<clock, proc, duration, loop_start, outcome, interrupt, probe>>

\* start_time = time.time()
track_clock ==
    /\ pc = "clock"
    /\ loop_start' = Some(Now)
    /\ pc' = "while"
    /\ UNCHANGED <<clock, proc, start_time, snapshots, ret, duration, outcome,
                   calls, interrupt, probe>>

\* while time.time() - start_time < duration
track_while ==
    /\ pc = "while"
    /\ pc' = IF FLt(FSub(Now, loop_start[1]), F(duration * TickSeconds))
             THEN "snap" ELSE "report"
    /\ UNCHANGED <<clock, proc, start_time, snapshots, ret, duration, loop_start,
                   outcome, calls, interrupt, probe>>

\* tracker.take_snapshot(): an exception other than KeyboardInterrupt leaves
\* the try statement uncaught and ends track_process.
track_snapshot ==
    /\ pc = "snap"
    /\ TakeSnapshotCall
    /\ Called("take_snapshot")
    /\ IF ret'.exc = ""
       THEN pc' = "sleep" /\ UNCHANGED outcome
       ELSE pc' = "done" /\ outcome' = "raised"
    /\ UNCHANGED <<clock, proc, duration, loop_start, interrupt, probe>>

\* status.update(...); time.sleep(0.5)
track_sleep ==
    /\ pc = "sleep"
    /\ pc' = "while"
    /\ UNCHANGED <<clock, proc, start_time, snapshots, ret, duration, loop_start,
                   outcome, calls, interrupt, probe>>

\* The statements inside "try: ... except KeyboardInterrupt".
InTry == {"while", "snap", "sleep"}

\* KeyboardInterrupt inside the try statement: the handler prints
\* "Stopped early." and control falls to the report.
track_interrupt_caught ==
    /\ pc \in InTry
    /\ interrupt' = "caught"
    /\ pc' = "report"
    /\ IF pc = "snap"
       THEN TakeSnapshotInterrupted /\ Called("take_snapshot")
       ELSE UNCHANGED <<start_time, snapshots, ret, calls>>
    /\ UNCHANGED <<clock, proc, duration, loop_start, outcome, probe>>

\* KeyboardInterrupt at a statement outside the try statement: it leaves
\* track_process (main's handler then ends the program).
track_interrupt_propagated ==
    /\ pc \in {"bind", "start", "clock", "report"}
    /\ interrupt' = "propagated"
    /\ pc' = "done"
    /\ outcome' = "raised"
    /\ UNCHANGED <<clock, proc, start_time, snapshots, ret, duration, loop_start,
                   calls, probe>>

\* report = tracker.generate_report(); print_report(report), and
\* "except Exception" printing the error.
track_report ==
    /\ pc = "report"
    /\ GenerateReportCall
    /\ Called("generate_report")
    /\ pc' = "done"
    /\ outcome' = IF ret'.exc = "" THEN "reported" ELSE "error"
    /\ UNCHANGED <<clock, proc, duration, loop_start, interrupt, probe>>

NextTrack ==
    \/ Tick
    \/ ProcessExit
    \/ track_bind
    \/ track_start
    \/ track_clock
    \/ track_while
    \/ track_snapshot
    \/ track_sleep
    \/ track_interrupt_caught
    \/ track_interrupt_propagated
    \/ track_report

SpecTrack == InitTrack /\ [][NextTrack]_vars

\* ----------------- SpecScore: the score and the rating of generate_report
\* avg_cpu values: means of cpu_percent readings.
AvgCpuInputs == {F(0), FRound(1, 10), F(20), F(40), F(80), F(120), F(240)}
\* duration values, in seconds: time.time() - self.start_time on a clock that
\* does not run backwards.
DurationInputs == {F(0), F(15), F(30), F(60), F(120)}

InitScore ==
    /\ clock = 0
    /\ proc = "alive"
    /\ start_time = None
    /\ snapshots = <<>>
    /\ ret = NoCall
    /\ pc = "score"
    /\ duration = 0
    /\ loop_start = None
    /\ outcome = "running"
    /\ calls = NoCalls
    /\ interrupt = "none"
    /\ probe \in [scored : {FALSE}, avg_cpu : AvgCpuInputs, duration : DurationInputs,
                  avg_cpu2 : AvgCpuInputs, duration2 : DurationInputs]

\* Lines 96-114 of generate_report on (avg_cpu, duration) and on
\* (avg_cpu2, duration2).
score ==
    /\ ~probe.scored
    /\ LET e  == Efficiency(probe.avg_cpu, probe.duration)
           e2 == Efficiency(probe.avg_cpu2, probe.duration2)
       IN  probe' = [scored |-> TRUE,
                     avg_cpu |-> probe.avg_cpu, duration |-> probe.duration,
                     avg_cpu2 |-> probe.avg_cpu2, duration2 |-> probe.duration2,
                     efficiency |-> e, rating |-> Rating(e),
                     efficiency2 |-> e2, rating2 |-> Rating(e2)]
    /\ UNCHANGED <<clock, proc, start_time, snapshots, ret, driverVars>>

NextScore == score

SpecScore == InitScore /\ [][NextScore]_vars

\* ========================================================== properties
IsReport(r) == r.op = "generate_report" /\ r.exc = "" /\ r.val # None
TheReport == ret.val[1]
IsPrefix(s, t) == Len(s) <= Len(t) /\ SubSeq(t, 1, Len(s)) = s

\* C1: when take_snapshot fails in the sampling loop because the process is
\* gone, track_process stops sampling and goes on to generate_report with the
\* snapshots collected so far; the failure does not leave track_process.
\* Stated for a loop that has already collected a snapshot, where the report
\* would not be the no-data error.
C1_ProcessGoneFallsThrough ==
    [][(/\ pc = "snap"
        /\ Len(snapshots) >= 1
        /\ ret'.op = "take_snapshot"
        /\ ret'.exc = "NoSuchProcess")
         => (pc' = "report" /\ snapshots' = snapshots /\ outcome' = "running")]_vars

\* C2: a KeyboardInterrupt delivered once start_monitoring has returned and
\* before the sampling loop has finished takes control to generate_report with
\* the snapshot list as it stands.
C2_InterruptReachesReport ==
    [][(pc \in {"clock", "while", "snap", "sleep"} /\ interrupt' # interrupt)
         => (pc' = "report" /\ snapshots' = snapshots)]_vars

\* C3: generate_report raises the no-data error and returns no report whenever
\* the snapshot list is empty or start_time was never set; a report comes only
\* from a tracker with a snapshot and a start time.
C3_NoDataFails ==
    ret.op = "generate_report" =>
        /\ (Len(snapshots) = 0 \/ start_time = None)
              => (ret.exc = "ValueError" /\ ret.val = None)
        /\ ret.val # None => (Len(snapshots) >= 1 /\ start_time # None)

\* C3 witness: snapshots were taken, start_monitoring never ran, and
\* generate_report raised.
C3_Witness ==
    /\ ret = Raised("generate_report", "ValueError")
    /\ Len(snapshots) >= 1
    /\ start_time = None

\* C4: once start_time is set no later call changes it, and a second
\* start_monitoring is rejected.
C4_StartTimeSetOnce ==
    [][start_time # None =>
         /\ start_time' = start_time
         /\ (ret'.op = "start_monitoring" /\ ret.op # "start_monitoring")
               => ret'.exc # ""]_vars

\* C5: the efficiency_score of every report lies in [0, 100].
C5_ScoreInRange ==
    IsReport(ret) =>
        /\ FLeq(F(0), TheReport.efficiency_score)
        /\ FLeq(TheReport.efficiency_score, F(100))

\* C5 witness: a report whose avg_cpu * duration / 60 is above 100, and one
\* way to it is a positive duration.
C5_Witness ==
    /\ IsReport(ret)
    /\ FGt(TheReport.duration_seconds, F(0))
    /\ FGt(FMul(TheReport.avg_cpu, FDiv(TheReport.duration_seconds, F(60))), F(100))
    /\ TheReport.efficiency_score = F(0)

\* C6: the rating is decided by four bands of efficiency_score with inclusive
\* lower edges, 80, 60 and 40, and every score gets exactly one of the labels.
C6_RatingBands ==
    probe.scored =>
        LET e == probe.efficiency
            r == probe.rating
        IN  /\ r \in {"Excellent!", "Good", "Fair", "Needs Improvement"}
            /\ (r = "Excellent!") <=> FGeq(e, F(80))
            /\ (r = "Good") <=> (FGeq(e, F(60)) /\ FLt(e, F(80)))
            /\ (r = "Fair") <=> (FGeq(e, F(40)) /\ FLt(e, F(60)))
            /\ (r = "Needs Improvement") <=> FLt(e, F(40))

\* C6 witness: a score of exactly 80, rated in the top band.
C6_Witness ==
    /\ probe.scored
    /\ probe.efficiency = F(80)
    /\ probe.rating = "Excellent!"

\* C7 as stated: the score does not increase when avg_cpu grows at a fixed
\* duration, nor when the duration grows at a fixed avg_cpu, for every
\* duration >= 0.
C7_Monotonic ==
    probe.scored =>
        /\ (FLeq(probe.avg_cpu, probe.avg_cpu2) /\ probe.duration = probe.duration2)
              => FLeq(probe.efficiency2, probe.efficiency)
        /\ (probe.avg_cpu = probe.avg_cpu2 /\ FLeq(probe.duration, probe.duration2))
              => FLeq(probe.efficiency2, probe.efficiency)

\* C7 amended: the score does not increase when avg_cpu grows at a fixed
\* duration >= 0, nor when the duration grows from a positive duration at a
\* fixed avg_cpu.
C7_MonotonicPositiveDuration ==
    probe.scored =>
        /\ (FLeq(probe.avg_cpu, probe.avg_cpu2) /\ probe.duration = probe.duration2)
              => FLeq(probe.efficiency2, probe.efficiency)
        /\ (/\ probe.avg_cpu = probe.avg_cpu2
            /\ FGt(probe.duration, F(0))
            /\ FLeq(probe.duration, probe.duration2))
              => FLeq(probe.efficiency2, probe.efficiency)

\* C7 witness: the same avg_cpu at two positive durations, the longer one
\* scoring strictly lower.
C7_Witness ==
    /\ probe.scored
    /\ probe.avg_cpu = probe.avg_cpu2
    /\ FGt(probe.duration, F(0))
    /\ FLt(probe.duration, probe.duration2)
    /\ FLt(probe.efficiency2, probe.efficiency)

\* C8: when SeagreenTracker(pid) raises, track_process calls none of
\* start_monitoring, take_snapshot, generate_report, no snapshot is appended,
\* and the constructor is called once.
C8_BindFailureStartsNothing ==
    outcome \in {"not_found", "denied"} =>
        /\ calls.init = 1
        /\ calls.start_monitoring = 0
        /\ calls.take_snapshot = 0
        /\ calls.generate_report = 0
        /\ snapshots = <<>>
        /\ start_time = None

\* C8 witness: track_process has returned after the constructor raised
\* NoSuchProcess.
C8_Witness ==
    /\ pc = "done"
    /\ outcome = "not_found"
    /\ ret = Raised("__init__", "NoSuchProcess")

Chronological ==
    \A i, j \in 1..Len(snapshots) :
        i <= j => FLeq(snapshots[i].timestamp, snapshots[j].timestamp)

AppendOnlyStep ==
    /\ IsPrefix(snapshots, snapshots')
    /\ Len(snapshots') <= Len(snapshots) + 1
    /\ (ret'.op # "take_snapshot" \/ ret'.exc # "") => snapshots' = snapshots
    /\ snapshots' # snapshots
          => /\ ret'.op = "take_snapshot"
             /\ snapshots' = Append(snapshots, ret'.val[1])

C10_MeanWithinRange ==
    IsReport(ret) =>
        LET n == Len(snapshots)
            r == TheReport
        IN  /\ \E i \in 1..n : r.peak_cpu = snapshots[i].cpu_percent
            /\ \A i \in 1..n : FLeq(snapshots[i].cpu_percent, r.peak_cpu)
            /\ \E i \in 1..n : FLeq(snapshots[i].cpu_percent, r.avg_cpu)
            /\ FLeq(r.avg_cpu, r.peak_cpu)
            /\ \E i \in 1..n : r.peak_memory_mb = snapshots[i].memory_mb
            /\ \A i \in 1..n : FLeq(snapshots[i].memory_mb, r.peak_memory_mb)
            /\ \E i \in 1..n : FLeq(snapshots[i].memory_mb, r.avg_memory_mb)
            /\ FLeq(r.avg_memory_mb, r.peak_memory_mb)

====
